---- MODULE Spec2Model ----
(***************************************************************************)
(* State-machine model of src/receive.py: the BLE audio receiver           *)
(* (XiaoAudioReceiver).  The notification handler reassembles an ordered   *)
(* byte stream from out-of-order data frames; download_file drives the     *)
(* session (subscription, credits, stall recovery, timeout).               *)
(*                                                                         *)
(* Both activities are asyncio coroutines on one event loop: each action   *)
(* below is one segment of code between two await points, so a segment is  *)
(* atomic and segments of the handler and of the driving loop interleave.  *)
(* A handler invocation that writes a cadence grant is suspended in the    *)
(* write while further frames are handled; main is suspended in the        *)
(* disconnect of its finally clause after download_file has returned.      *)
(* Wall time is counted in ticks of 0.5 s (one asyncio.sleep quantum) and  *)
(* saturates just above the 60 s deadline, the only value the code         *)
(* compares it with.                                                       *)
(***************************************************************************)
EXTENDS Integers, Sequences, FiniteSets, TLC

VARIABLES
    received_data,           \* self.received_data: sequence of bytes
    expected_seq,            \* self.expected_seq
    total_packets,           \* self.total_packets
    credits_sent,            \* self.credits_sent
    pending_grants,          \* handler invocations suspended in the write of line 258
    file_transfer_complete,  \* self.file_transfer_complete
    packet_buffer,           \* self.packet_buffer: seq -> payload
    file_size,               \* self.file_size
    pc,                      \* the await point main or download_file is suspended at
    last_received,           \* local last_received of download_file
    stall_count,             \* local stall_count of download_file
    now,                     \* time.time() - self.start_time, in ticks, saturating
    subscribed,              \* the transport holds the notification subscription
    stop_notify_calls,       \* number of calls of client.stop_notify
    connected,               \* client.is_connected
    exit_reason,             \* the way the while loop of download_file was left
    returned,                \* the value download_file returned
    last,                    \* what the most recent step did and printed
    first_payload,           \* history: seq -> payload of its first frame, not stale, not evicted
    window_ok                \* history: no admitted frame was more than 50 ahead

vars == <<received_data, expected_seq, total_packets, credits_sent,
          pending_grants, file_transfer_complete, packet_buffer, file_size, pc, last_received,
          stall_count, now, subscribed, stop_notify_calls, connected,
          exit_reason, returned, last, first_payload, window_ok>>

reassembly == <<received_data, expected_seq, packet_buffer>>
handler_vars == <<received_data, expected_seq, total_packets, credits_sent,
                  pending_grants, file_transfer_complete, packet_buffer, first_payload, window_ok>>
loop_vars == <<pc, last_received, stall_count, now, subscribed,
               stop_notify_calls, exit_reason, returned>>

----------------------------------------------------------------------------
(* Program constants *)

max_buffer_size == 100
GapThreshold == 50
SkipThreshold == 10
StallLimit == 20
TimeoutSeconds == 60
TicksPerSecond == 2
NearCompletePercent == 99
HeaderLen == 8
InitialCredits == 64
CadenceCredits == 2
CadencePackets == 2
StallCredits == 32

TimeoutTicks == TimeoutSeconds * TicksPerSecond

(* Bounds of the model *)

MaxPackets == 3
MaxSessionPackets == 2
MaxCredits == 100
MaxBurstPackets == 204
FarBase == 1000000

----------------------------------------------------------------------------
(* Helpers *)

Min(a, b) == IF a < b THEN a ELSE b

SetMin(S) == CHOOSE x \in S : \A y \in S : x <= y

Remove(buf, keys) == [k \in (DOMAIN buf) \ keys |-> buf[k]]

Insert(buf, k, v) == [j \in (DOMAIN buf) \cup {k} |-> IF j = k THEN v ELSE buf[j]]

EmptyBuffer == [k \in {} |-> <<>>]

RECURSIVE BitXor(_, _)
BitXor(a, b) ==
    IF a = 0 THEN b
    ELSE IF b = 0 THEN a
    ELSE ((a + b) % 2) + 2 * BitXor(a \div 2, b \div 2)

RECURSIVE CrcShift(_, _)
CrcShift(crc, n) ==
    IF n = 0 THEN crc
    ELSE CrcShift(IF (crc \div 32768) % 2 = 1
                  THEN BitXor((crc * 2) % 65536, 4129)
                  ELSE (crc * 2) % 65536,
                  n - 1)

RECURSIVE CrcBytes(_, _)
CrcBytes(crc, data) ==
    IF data = <<>> THEN crc
    ELSE CrcBytes(CrcShift(BitXor(crc, Head(data) * 256), 8), Tail(data))

crc16_ccitt(data) == CrcBytes(65535, data)

----------------------------------------------------------------------------
(* Frames.  A raw notification frame is its byte count raw_len, the three  *)
(* header fields (meaningful when raw_len >= 8) and the bytes that follow  *)
(* the header.                                                             *)

Frame(seq, length, crc, body) ==
    [raw_len |-> HeaderLen + Len(body), seq |-> seq, length |-> length,
     crc |-> crc, body |-> body]

ShortFrame(n) ==
    [raw_len |-> n, seq |-> 0, length |-> 0, crc |-> 0, body |-> <<>>]

Payload(f) == SubSeq(f.body, 1, Min(f.length, Len(f.body)))

IsShort(f) == f.raw_len < HeaderLen

IsEof(f) == ~IsShort(f) /\ f.length = 0 /\ f.crc = 0

IsMismatch(f) == ~IsShort(f) /\ ~IsEof(f) /\ Len(Payload(f)) # f.length

IsData(f) == ~IsShort(f) /\ ~IsEof(f) /\ ~IsMismatch(f)

CrcError(f) == IsData(f) /\ f.crc # crc16_ccitt(Payload(f))

----------------------------------------------------------------------------
(* process_buffered_packets *)

\* Mutant: the flush pops one buffered packet instead of the whole run.
DrainRunOnce(e, buf, data) ==
    IF e \in DOMAIN buf
    THEN [expected_seq |-> e + 1, packet_buffer |-> Remove(buf, {e}),
          received_data |-> data \o buf[e]]
    ELSE [expected_seq |-> e, packet_buffer |-> buf, received_data |-> data]

\* Mutant: the flush leaves the buffer as it is.
DrainRunSkipped(e, buf, data) ==
    [expected_seq |-> e, packet_buffer |-> buf, received_data |-> data]

RECURSIVE DrainRun(_, _, _)
DrainRun(e, buf, data) ==
    IF e \in DOMAIN buf
    THEN DrainRun(e + 1, Remove(buf, {e}), data \o buf[e])
    ELSE [expected_seq |-> e, packet_buffer |-> buf, received_data |-> data]

\* Mutant: the eviction takes the highest keys.
HighestKeys(keys, n) == {k \in keys : Cardinality({j \in keys : j > k}) < n}

LowestKeys(keys, n) == {k \in keys : Cardinality({j \in keys : j < k}) < n}

OldSeqs(buf) ==
    IF Cardinality(DOMAIN buf) > max_buffer_size
    THEN LowestKeys(DOMAIN buf,
                    Cardinality(DOMAIN buf) - (max_buffer_size \div 2))
    ELSE {}

process_buffered_packets(e, buf, data) ==
    LET d == DrainRun(e, buf, data)
        old == OldSeqs(d.packet_buffer)
    IN [expected_seq |-> d.expected_seq,
        packet_buffer |-> Remove(d.packet_buffer, old),
        received_data |-> d.received_data,
        dropped |-> old]

----------------------------------------------------------------------------
(* notification_handler *)

Unchanged(op, f) ==
    [expected_seq |-> expected_seq, packet_buffer |-> packet_buffer,
     received_data |-> received_data, dropped |-> {}, op |-> op,
     skip_to |-> -1]

\* Mutant: the expected frame is appended without the flush of the buffer.
InOrderNoFlush(f) ==
    [expected_seq |-> expected_seq + 1, packet_buffer |-> packet_buffer,
     received_data |-> received_data \o Payload(f), dropped |-> {},
     op |-> "in_order", skip_to |-> -1]

\* Mutant: the expected frame is appended and expected_seq stays.
InOrderNoAdvance(f) ==
    LET r == process_buffered_packets(expected_seq, packet_buffer,
                                      received_data \o Payload(f))
    IN [expected_seq |-> r.expected_seq, packet_buffer |-> r.packet_buffer,
        received_data |-> r.received_data, dropped |-> r.dropped,
        op |-> "in_order", skip_to |-> -1]

InOrder(f) ==
    LET r == process_buffered_packets(expected_seq + 1, packet_buffer,
                                      received_data \o Payload(f))
    IN [expected_seq |-> r.expected_seq, packet_buffer |-> r.packet_buffer,
        received_data |-> r.received_data, dropped |-> r.dropped,
        op |-> "in_order", skip_to |-> -1]

\* Mutant: the large-gap skip jumps to the frame that arrived and discards
\* the buffered entries below it.
LargeGapDiscard(f, buf) ==
    LET lower == {s \in DOMAIN buf : s < f.seq}
        r == process_buffered_packets(f.seq, Remove(buf, lower), received_data)
    IN [expected_seq |-> r.expected_seq, packet_buffer |-> r.packet_buffer,
        received_data |-> r.received_data, dropped |-> lower,
        op |-> "gap_skip", skip_to |-> f.seq]

LargeGap(f, buf) ==
    LET available_seqs == {s \in DOMAIN buf : s >= expected_seq}
        next_seq == SetMin(available_seqs)
        r == process_buffered_packets(next_seq, buf, received_data)
    IN IF available_seqs # {}
       THEN [expected_seq |-> r.expected_seq, packet_buffer |-> r.packet_buffer,
             received_data |-> r.received_data, dropped |-> r.dropped,
             op |-> "gap_skip", skip_to |-> next_seq]
       ELSE [expected_seq |-> expected_seq, packet_buffer |-> buf,
             received_data |-> received_data, dropped |-> {},
             op |-> "buffered", skip_to |-> -1]

OutOfOrder(f) ==
    IF f.seq \in DOMAIN packet_buffer
    THEN Unchanged("duplicate", f)
    ELSE LET buf == Insert(packet_buffer, f.seq, Payload(f))
         IN IF f.seq - expected_seq > GapThreshold
            THEN LargeGap(f, buf)
            ELSE [expected_seq |-> expected_seq, packet_buffer |-> buf,
                  received_data |-> received_data, dropped |-> {},
                  op |-> "buffered", skip_to |-> -1]

\* Mutant: the stale test is off by one.
OrderingOffByOne(f) ==
    IF f.seq + 1 < expected_seq THEN Unchanged("stale", f)
    ELSE IF f.seq = expected_seq THEN InOrder(f)
    ELSE OutOfOrder(f)

\* Mutant: no stale test.
OrderingNoStale(f) ==
    IF f.seq = expected_seq THEN InOrder(f) ELSE OutOfOrder(f)

Ordering(f) ==
    IF f.seq < expected_seq THEN Unchanged("stale", f)
    ELSE IF f.seq = expected_seq THEN InOrder(f)
    ELSE OutOfOrder(f)

CreditDue(packets, op) == op # "stale" /\ packets % CadencePackets = 0

\* Mutant: the counter is increased whether or not the write succeeded.
SendCreditsCounted(credits, ok) == credits_sent + credits

send_credits(credits, ok) ==
    IF ok THEN credits_sent + credits ELSE credits_sent

Rejected(f, op) ==
    /\ UNCHANGED <<received_data, expected_seq, total_packets, credits_sent,
                   pending_grants, packet_buffer, first_payload, window_ok>>
    /\ file_transfer_complete' = (file_transfer_complete \/ op = "eof")
    /\ last' = [op |-> op, seq |-> IF op = "eof" THEN f.seq ELSE -1,
                skip_to |-> -1, dropped |-> {}, grant |-> 0]

\* Lines 209-258 up to the await of the write: the handler returns, or it
\* calls send_credits(2) and is suspended in write_gatt_char (line 158).
Accepted(f) ==
    LET r == Ordering(f)
        due == CreditDue(total_packets + 1, r.op)
    IN /\ total_packets' = total_packets + 1
       /\ expected_seq' = r.expected_seq
       /\ packet_buffer' = r.packet_buffer
       /\ received_data' = r.received_data
       /\ pending_grants' = IF due THEN pending_grants + 1 ELSE pending_grants
       /\ UNCHANGED <<credits_sent, file_transfer_complete>>
       /\ first_payload' =
             Remove(IF r.op = "stale" \/ f.seq \in DOMAIN first_payload
                    THEN first_payload
                    ELSE Insert(first_payload, f.seq, Payload(f)),
                    r.dropped)
       /\ window_ok' = (window_ok /\ f.seq - expected_seq <= GapThreshold)
       /\ last' = [op |-> r.op, seq |-> IF r.op = "stale" THEN -1 ELSE f.seq,
                   skip_to |-> r.skip_to,
                   dropped |-> r.dropped,
                   grant |-> IF due THEN CadenceCredits ELSE 0]

\* A frame is delivered as long as the transport holds the subscription:
\* lines 186-258 up to the await of line 258.
notification_handler(f) ==
    /\ subscribed
    /\ connected
    /\ IF IsShort(f) THEN Rejected(f, "short")
       ELSE IF IsEof(f) THEN Rejected(f, "eof")
       ELSE IF IsMismatch(f) THEN Rejected(f, "mismatch")
       ELSE Accepted(f)
    /\ UNCHANGED <<file_size, loop_vars, connected>>

\* Lines 258 and 158-161: the write of a cadence grant returns or raises and
\* the handler invocation suspended in it ends.
cadence_credits(ok) ==
    /\ pending_grants > 0
    /\ connected
    /\ pending_grants' = pending_grants - 1
    /\ credits_sent' = send_credits(CadenceCredits, ok)
    /\ last' = [op |-> "cadence_credits", seq |-> -1, skip_to |-> -1,
                dropped |-> {}, grant |-> CadenceCredits]
    /\ UNCHANGED <<received_data, expected_seq, total_packets,
                   file_transfer_complete, packet_buffer, first_payload,
                   window_ok, file_size, loop_vars, connected>>

----------------------------------------------------------------------------
(* main and download_file *)

\* Mutant: exactly 99% is not enough.
Progress99Strict(len) ==
    IF file_size > 0 THEN len * 100 > NearCompletePercent * file_size
    ELSE 0 > NearCompletePercent

Progress99(len) ==
    IF file_size > 0 THEN len * 100 >= NearCompletePercent * file_size
    ELSE 0 >= NearCompletePercent

WhileTest(len) == len < file_size /\ ~file_transfer_complete

Log(op, skip_to, dropped, grant) ==
    [op |-> op, seq |-> -1, skip_to |-> skip_to, dropped |-> dropped,
     grant |-> grant]

\* download_file returns value (or raises), or was not called, and main runs
\* to its finally clause, lines 415-431 and 371-374: with a connected client
\* main is suspended in client.disconnect() (line 374), the connection and a
\* subscription that was not released still there; without one main ends.
\* The locals of download_file are gone.
Return(value, reason) ==
    /\ pc' = "exited"
    /\ exit_reason' = reason
    /\ returned' = value
    /\ last_received' = 0
    /\ stall_count' = 0

\* The coroutine goes on to line 330 and is suspended in stop_notify.  The
\* clock is not compared with the deadline again: it is held at its
\* saturation value.
Break(reason) ==
    /\ pc' = "stop_notify"
    /\ exit_reason' = reason
    /\ stop_notify_calls' = stop_notify_calls + 1
    /\ now' = TimeoutTicks + 1
    /\ UNCHANGED <<returned, connected, subscribed>>

\* Mutant: the timeout check does not look at the number of bytes received.
EndOfIterationAnyLen(len, t, lr, sc) ==
    IF t > TimeoutTicks
    THEN /\ Return("false", "timeout")
         /\ now' = t
         /\ UNCHANGED <<stop_notify_calls, connected, subscribed>>
    ELSE /\ last_received' = lr
         /\ stall_count' = sc
         /\ IF WhileTest(len)
            THEN /\ pc' = "sleep"
                 /\ now' = t
                 /\ UNCHANGED <<exit_reason, returned, stop_notify_calls,
                                connected, subscribed>>
            ELSE Break("complete")

\* Lines 323-327 and 286: the timeout check that ends an iteration, at time
\* t, then the loop test; the coroutine is suspended next in asyncio.sleep or
\* stop_notify.  lr and sc are the new values of last_received and
\* stall_count.
EndOfIteration(len, t, lr, sc) ==
    IF t > TimeoutTicks /\ len = 0
    THEN /\ Return("false", "timeout")
         /\ now' = t
         /\ UNCHANGED <<stop_notify_calls, connected, subscribed>>
    ELSE /\ last_received' = lr
         /\ stall_count' = sc
         /\ IF WhileTest(len)
            THEN /\ pc' = "sleep"
                 /\ now' = t
                 /\ UNCHANGED <<exit_reason, returned, stop_notify_calls,
                                connected, subscribed>>
            ELSE Break("complete")

\* The clock after d more ticks.  The code compares the clock with the
\* deadline only while received_data is empty (line 325), and received_data
\* never becomes empty again within a session: once a byte is there the
\* clock is held at its saturation value.
Tick(t, d, len) ==
    IF len > 0 THEN TimeoutTicks + 1 ELSE Min(t + d, TimeoutTicks + 1)

\* The answer of the file information characteristic: raw_len bytes, the
\* u32 size in the first four, then the name, which decodes as UTF-8 or not.
FileInfo(raw_len, size, name_ok) ==
    [raw_len |-> raw_len, size |-> size, name_ok |-> name_ok]

\* main, line 412, and lines 107-123: client.connect() returns or raises;
\* connected, main calls read_file_info and is suspended in read_gatt_char
\* (line 129); not connected, it goes to its finally clause.
connect_to_device(ok) ==
    /\ pc = "created"
    /\ IF ok
       THEN /\ pc' = "read_file_info"
            /\ connected' = TRUE
            /\ UNCHANGED <<exit_reason, returned, last_received, stall_count>>
       ELSE /\ Return("none", "connect_failed")
            /\ UNCHANGED connected
    /\ last' = Log("connect_to_device", -1, {}, 0)
    /\ UNCHANGED <<handler_vars, file_size, now, subscribed, stop_notify_calls>>

\* Lines 129-153 and 413-422: read_gatt_char returns info or raises.  An
\* answer of fewer than four bytes is refused before the size is stored; the
\* size is stored (line 136) before the name is decoded (lines 142-144), so a
\* name that does not decode leaves the size behind.  Without file
\* information or without file data main goes to its finally clause.
read_file_info(ok, info) ==
    /\ pc = "read_file_info"
    /\ file_size' = IF ok /\ info.raw_len >= 4 THEN info.size ELSE file_size
    /\ IF ~ok \/ info.raw_len < 4 \/ ~info.name_ok
       THEN Return("none", "no_file_info")
       ELSE IF info.size > 0
       THEN /\ pc' = "idle"
            /\ UNCHANGED <<exit_reason, returned, last_received, stall_count>>
       ELSE Return("none", "no_file")
    /\ last' = Log("read_file_info", -1, {}, 0)
    /\ UNCHANGED <<handler_vars, now, subscribed, stop_notify_calls,
                   connected>>

\* Lines 263-274: reset the session state, call start_notify.
download_file ==
    /\ pc = "idle"
    /\ received_data' = <<>>
    /\ expected_seq' = 0
    /\ total_packets' = 0
    /\ credits_sent' = 0
    /\ now' = 0
    /\ file_transfer_complete' = FALSE
    /\ packet_buffer' = EmptyBuffer
    /\ first_payload' = EmptyBuffer
    /\ window_ok' = TRUE
    /\ pc' = "start_notify"
    /\ last' = Log("reset", -1, {}, 0)
    /\ UNCHANGED <<pending_grants, file_size, last_received, stall_count, subscribed,
                   stop_notify_calls, connected, exit_reason, returned>>

\* Line 274 returns or raises; lines 275-278 up to the write of 64 credits.
start_notify(ok) ==
    /\ pc = "start_notify"
    /\ IF ok
       THEN /\ subscribed' = TRUE
            /\ pc' = "initial_credits"
            /\ UNCHANGED <<exit_reason, returned, last_received, stall_count>>
       ELSE /\ Return("false", "subscribe_error")
            /\ UNCHANGED subscribed
    /\ last' = Log("start_notify", -1, {}, 0)
    /\ UNCHANGED <<handler_vars, file_size, now, stop_notify_calls,
                   connected>>

\* Lines 278-287: the write of 64 credits returns or raises, the loop starts.
initial_credits(ok) ==
    /\ pc = "initial_credits"
    /\ credits_sent' = send_credits(InitialCredits, ok)
    /\ last_received' = 0
    /\ stall_count' = 0
    /\ IF WhileTest(Len(received_data))
       THEN /\ pc' = "sleep"
            /\ UNCHANGED <<exit_reason, returned, stop_notify_calls,
                           connected, subscribed, now>>
       ELSE Break("complete")
    /\ last' = Log("initial_credits", -1, {}, InitialCredits)
    /\ UNCHANGED <<received_data, expected_seq, total_packets,
                   pending_grants, file_transfer_complete, packet_buffer,
                   first_payload, window_ok, file_size>>

\* Lines 287-307 and 319-327: one sample of the driving loop, from the wake-up
\* of asyncio.sleep to the next await.
sample(d) ==
    LET len == Len(received_data)
        t == Tick(now, d, len)
    IN /\ pc = "sleep"
       /\ IF file_transfer_complete
          THEN /\ Break("complete")
               /\ UNCHANGED <<last_received, stall_count>>
               /\ last' = Log("eof_seen", -1, {}, 0)
          ELSE IF len = last_received
          THEN IF stall_count + 1 > StallLimit
               THEN IF Progress99(len)
                    THEN /\ Break("accepted")
                         /\ stall_count' = stall_count + 1
                         /\ UNCHANGED last_received
                         /\ last' = Log("accepted", -1, {}, 0)
                    ELSE /\ pc' = "stall_credits"
                         /\ stall_count' = stall_count + 1
                         /\ now' = t
                         /\ UNCHANGED <<last_received, exit_reason, returned,
                                        stop_notify_calls, connected,
                                        subscribed>>
                         /\ last' = Log("stalled", -1, {}, 0)
               ELSE /\ EndOfIteration(len, t, last_received, stall_count + 1)
                    /\ last' = Log("unchanged", -1, {}, 0)
          ELSE /\ EndOfIteration(len, t, len, 0)
               /\ last' = Log("progress", -1, {}, 0)
       /\ UNCHANGED <<handler_vars, file_size>>

\* Mutant: the stall skip does not look at the size of the gap.
StallSkipAnyGap ==
    LET min_buffered_seq == SetMin(DOMAIN packet_buffer)
        r == process_buffered_packets(min_buffered_seq, packet_buffer,
                                      received_data)
    IN IF DOMAIN packet_buffer # {}
       THEN [expected_seq |-> r.expected_seq, packet_buffer |-> r.packet_buffer,
             received_data |-> r.received_data, dropped |-> r.dropped,
             op |-> "stall_skip", skip_to |-> min_buffered_seq]
       ELSE [expected_seq |-> expected_seq, packet_buffer |-> packet_buffer,
             received_data |-> received_data, dropped |-> {},
             op |-> "stall_recover", skip_to |-> -1]

\* Lines 310-318: the stall skip.
StallSkip ==
    LET min_buffered_seq == SetMin(DOMAIN packet_buffer)
        r == process_buffered_packets(min_buffered_seq, packet_buffer,
                                      received_data)
    IN IF DOMAIN packet_buffer # {}
          /\ min_buffered_seq - expected_seq <= SkipThreshold
       THEN [expected_seq |-> r.expected_seq, packet_buffer |-> r.packet_buffer,
             received_data |-> r.received_data, dropped |-> r.dropped,
             op |-> "stall_skip", skip_to |-> min_buffered_seq]
       ELSE [expected_seq |-> expected_seq, packet_buffer |-> packet_buffer,
             received_data |-> received_data, dropped |-> {},
             op |-> "stall_recover", skip_to |-> -1]

\* Lines 307-327: the write of 32 credits returns or raises after d ticks, the
\* stall skip, the end of the iteration.
stall_credits(ok, d) ==
    LET r == StallSkip
        t == Tick(now, d, Len(r.received_data))
    IN /\ pc = "stall_credits"
       /\ credits_sent' = send_credits(StallCredits, ok)
       /\ expected_seq' = r.expected_seq
       /\ packet_buffer' = r.packet_buffer
       /\ received_data' = r.received_data
       /\ EndOfIteration(Len(r.received_data), t, last_received, 0)
       /\ last' = Log(r.op, r.skip_to, r.dropped, StallCredits)
       /\ first_payload' = Remove(first_payload, r.dropped)
       /\ UNCHANGED <<total_packets, pending_grants, file_transfer_complete,
                      window_ok, file_size>>

\* Lines 330-346: stop_notify returns, the subscription released, or raises;
\* download_file returns.
stop_notify(ok) ==
    /\ pc = "stop_notify"
    /\ IF ok
       THEN /\ Return("true", exit_reason)
            /\ subscribed' = FALSE
       ELSE /\ Return("false", "error")
            /\ UNCHANGED subscribed
    /\ last' = Log("stop_notify", -1, {}, 0)
    /\ UNCHANGED <<handler_vars, file_size, now, stop_notify_calls,
                   connected>>

\* Lines 371-375 and 431: client.disconnect() returns, raises or is cancelled
\* by an interrupt, and main ends.  The connection is gone and with it the
\* subscription; the event loop closes and cancels the handler invocations
\* still suspended in a write.
disconnect ==
    /\ pc = "exited"
    /\ connected
    /\ connected' = FALSE
    /\ subscribed' = FALSE
    /\ pending_grants' = 0
    /\ last' = Log("disconnect", -1, {}, 0)
    /\ UNCHANGED <<received_data, expected_seq, total_packets, credits_sent,
                   file_transfer_complete, packet_buffer, first_payload,
                   window_ok, file_size, pc, last_received, stall_count, now,
                   stop_notify_calls, exit_reason, returned>>

\* The awaits main can be suspended in before the finally clause.
AwaitPoints ==
    {"created", "read_file_info", "start_notify", "initial_credits", "sleep",
     "stall_credits", "stop_notify"}

\* Lines 426-431: a user interrupt cancels main at the await it is suspended
\* in: inside download_file the await raises (not an Exception, so line 344
\* does not catch it), before it download_file is never called; main goes to
\* its finally clause.  The clock is not compared with the deadline again.
interrupt ==
    /\ pc \in AwaitPoints
    /\ Return(IF pc \in {"created", "read_file_info"} THEN "none"
              ELSE "raised",
              "interrupt")
    /\ last' = Log("interrupt", -1, {}, 0)
    /\ now' = TimeoutTicks + 1
    /\ UNCHANGED <<handler_vars, file_size, stop_notify_calls, connected,
                   subscribed>>

----------------------------------------------------------------------------
(* Initial state: XiaoAudioReceiver.__init__, lines 38-52. *)

Init ==
    /\ received_data = <<>>
    /\ expected_seq = 0
    /\ total_packets = 0
    /\ credits_sent = 0
    /\ pending_grants = 0
    /\ file_transfer_complete = FALSE
    /\ packet_buffer = EmptyBuffer
    /\ file_size = 0
    /\ pc = "created"
    /\ last_received = 0
    /\ stall_count = 0
    /\ now = 0
    /\ subscribed = FALSE
    /\ stop_notify_calls = 0
    /\ connected = FALSE
    /\ exit_reason = "none"
    /\ returned = "none"
    /\ last = Log("init", -1, {}, 0)
    /\ first_payload = EmptyBuffer
    /\ window_ok = TRUE

----------------------------------------------------------------------------
(* Inputs *)

Bytes == {65, 66}

Bodies(n) == UNION {[1..k -> Bytes] : k \in 0..n}

\* Well-formed data frames: the declared length is the body's, the checksum
\* the body's CRC.
GoodFrames(seqs, bodies) ==
    {Frame(sb[1], Len(sb[2]), crc16_ccitt(sb[2]), sb[2]) : sb \in seqs \X bodies}

\* Data frames whose checksum is wrong.
BadCrcFrames(seqs, bodies) ==
    {Frame(sb[1], Len(sb[2]), (crc16_ccitt(sb[2]) + 1) % 65536, sb[2])
        : sb \in seqs \X (bodies \ {<<>>})}

\* Frames that carry one byte more than they declare.
LongFrames(seqs, bodies) ==
    {Frame(sb[1], Len(sb[2]), crc16_ccitt(sb[2]), sb[2] \o <<66>>)
        : sb \in seqs \X bodies}

\* Frames that carry one byte less than they declare.
TruncatedFrames(seqs, bodies) ==
    {Frame(sb[1], Len(sb[2]) + 1, crc16_ccitt(sb[2]), sb[2])
        : sb \in seqs \X bodies}

\* EndMarker frames: length 0 and checksum 0, with or without trailing bytes.
EofFrames(seqs) ==
    {Frame(sb[1], 0, 0, sb[2]) : sb \in seqs \X {<<>>, <<65>>}}

ShortFrames == {ShortFrame(0), ShortFrame(HeaderLen - 1)}

\* Sequence numbers on both sides of the large-gap threshold; the highest is
\* still more than the threshold ahead after a skip to frame 1.
ReorderSeqs ==
    {0, 1, 2, GapThreshold, GapThreshold + 1, GapThreshold + 3}

ReorderFrames ==
    ShortFrames \cup EofFrames({2})
    \cup GoodFrames(ReorderSeqs, Bodies(1))
    \cup BadCrcFrames({0}, Bodies(1))
    \cup LongFrames({0, GapThreshold}, Bodies(1))
    \cup TruncatedFrames({0, GapThreshold}, Bodies(1))

ReorderData == {f \in ReorderFrames : IsData(f)}

FileSizes == {0, 100}

\* Answers of the file information characteristic: three bytes, or a size
\* with a name that decodes or does not.
FileInfos ==
    {FileInfo(3, 0, TRUE)}
    \cup {FileInfo(8, sn[1], sn[2]) : sn \in FileSizes \X BOOLEAN}

----------------------------------------------------------------------------
(* Reassembly: frames arrive while download_file is suspended in the write *)
(* of the initial credits.                                                 *)

Setup ==
    \/ \E ok \in BOOLEAN : connect_to_device(ok)
    \/ \E ok \in BOOLEAN, info \in FileInfos : read_file_info(ok, info)
    \/ download_file
    \/ \E ok \in BOOLEAN : start_notify(ok)

Notify ==
    \/ \E f \in ReorderFrames :
          /\ IsData(f) => total_packets < MaxPackets
          /\ notification_handler(f)
    \/ \E ok \in BOOLEAN : cadence_credits(ok)

NextReorder == Setup \/ Notify \/ disconnect

SpecReorder == Init /\ [][NextReorder]_vars

\* The same frames with every write of a cadence grant successful.
NotifyCadence ==
    \/ \E f \in ReorderFrames :
          /\ IsData(f) => total_packets < MaxPackets
          /\ notification_handler(f)
    \/ cadence_credits(TRUE)

NextCadence == Setup \/ NotifyCadence \/ disconnect

SpecCadence == Init /\ [][NextCadence]_vars

----------------------------------------------------------------------------
(* Session: the driving loop and the handler interleave.  The file is 100  *)
(* bytes; a frame carries one byte or 99.                                  *)

Big == [i \in 1..99 |-> 65]

\* 7354 is crc16_ccitt of the 99 bytes of Big.
BigFrame == Frame(0, Len(Big), 7354, Big)

SessionFrames ==
    EofFrames({2})
    \cup {BigFrame}
    \cup GoodFrames({0, 1, SkipThreshold + 1, GapThreshold + 1}, {<<65>>})

\* asyncio.sleep(0.5) returns after one tick, or so late that the deadline
\* has passed.
SleepTicks == {1, TimeoutTicks + 1}

\* The write of the stall credits returns at once, or past the deadline.
WriteTicks == {0, TimeoutTicks + 1}

NotifySession ==
    \/ \E f \in SessionFrames :
          /\ IsData(f) => total_packets < MaxSessionPackets
          /\ notification_handler(f)
    \/ \E ok \in BOOLEAN : cadence_credits(ok)

Loop ==
    \/ \E ok \in BOOLEAN : initial_credits(ok)
    \/ \E d \in SleepTicks : sample(d)
    \/ \E ok \in BOOLEAN, d \in WriteTicks :
          /\ ok => credits_sent + StallCredits <= MaxCredits
          /\ stall_credits(ok, d)
    \/ \E ok \in BOOLEAN : stop_notify(ok)

Next == Setup \/ Loop \/ NotifySession \/ interrupt \/ disconnect

Spec == Init /\ [][Next]_vars

\* The session left to run: no interrupt, and the event loop resumes the
\* coroutine of download_file whenever its await can complete.  The frames
\* are an EndMarker, the first frame, a frame a stall skip flushes and a frame
\* that stays in the reorder buffer.
LiveFrames ==
    EofFrames({2}) \cup GoodFrames({0, 1, SkipThreshold + 1}, {<<65>>})

NotifyLive ==
    \/ \E f \in LiveFrames :
          /\ IsData(f) => total_packets < MaxSessionPackets
          /\ notification_handler(f)
    \/ \E ok \in BOOLEAN : cadence_credits(ok)

NextLive == Setup \/ Loop \/ NotifyLive \/ disconnect

SpecLive == Init /\ [][NextLive]_vars /\ WF_vars(Loop)

\* The same, with the frames of a transfer that gets stuck: the first frame,
\* a frame more than 10 ahead of it, an EndMarker.
StuckFrames ==
    EofFrames({2}) \cup GoodFrames({0, GapThreshold + 1}, {<<65>>})

NotifyStuck ==
    \/ \E f \in StuckFrames :
          /\ IsData(f) => total_packets < MaxSessionPackets
          /\ notification_handler(f)
    \/ \E ok \in BOOLEAN : cadence_credits(ok)

NextStuck == Setup \/ Loop \/ NotifyStuck \/ disconnect

SpecStuck == Init /\ [][NextStuck]_vars /\ WF_vars(Loop)

----------------------------------------------------------------------------
(* Burst: a sender that starts to lose frames.  In order at first, it     *)
(* skips one number and then jumps far ahead, with sequence numbers that   *)
(* grow from FarBase; it resends the expected frame only when the reorder  *)
(* buffer is over its cap.  It sends a frame when the write of every       *)
(* cadence grant has returned.                                             *)

FarSeq ==
    LET far == {k \in DOMAIN packet_buffer : k >= FarBase}
    IN IF far = {} THEN FarBase
       ELSE (CHOOSE k \in far : \A j \in far : j <= k) + 1

BurstSeqs ==
    IF expected_seq + 2 \in DOMAIN packet_buffer
    THEN {FarSeq} \cup
         (IF Cardinality(DOMAIN packet_buffer) > max_buffer_size
          THEN {expected_seq} ELSE {})
    ELSE {expected_seq + 2} \cup
         (IF packet_buffer = EmptyBuffer THEN {expected_seq} ELSE {})

NotifyBurst ==
    \/ \E f \in GoodFrames(BurstSeqs, {<<65>>}) :
          /\ total_packets < MaxBurstPackets
          /\ pending_grants = 0
          /\ notification_handler(f)
    \/ cadence_credits(TRUE)

NextBurst == Setup \/ NotifyBurst \/ disconnect

SpecBurst == Init /\ [][NextBurst]_vars

\* The same sender with two more kinds of frame far ahead: the very first
\* frame of the session may be more than the threshold ahead with nothing
\* buffered, and with the reorder buffer over its cap a frame may come that
\* is below every far key held.
GapSeqs ==
    BurstSeqs
    \cup (IF total_packets = 0 THEN {GapThreshold + 1} ELSE {})
    \cup (IF Cardinality(DOMAIN packet_buffer) > max_buffer_size
          THEN {FarBase - 1} ELSE {})

NotifyGap ==
    \/ \E f \in GoodFrames(GapSeqs, {<<65>>}) :
          /\ total_packets < MaxBurstPackets
          /\ pending_grants = 0
          /\ notification_handler(f)
    \/ cadence_credits(TRUE)

NextGap == Setup \/ NotifyGap \/ disconnect

SpecGap == Init /\ [][NextGap]_vars

----------------------------------------------------------------------------
(* Claims *)

\* What a step of the notification handler logs.
HandlerOps ==
    {"short", "eof", "mismatch", "stale", "in_order", "duplicate", "buffered",
     "gap_skip", "cadence_credits"}

Admitted == DOMAIN first_payload

\* The length k of the contiguous run of admitted sequence numbers from 0.
ContiguousRun ==
    CHOOSE n \in 0..Cardinality(Admitted) :
        n \notin Admitted /\ \A m \in 0..(n - 1) : m \in Admitted

RECURSIVE PrefixOutput(_)
PrefixOutput(n) ==
    IF n = 0 THEN <<>> ELSE PrefixOutput(n - 1) \o first_payload[n - 1]

Reordered ==
    /\ received_data = PrefixOutput(ContiguousRun)
    /\ expected_seq = ContiguousRun

\* C1 as stated: after any sequence of data frames on a fresh session (any
\* sequence numbers, any order, duplicates), the output is payload(0) ..
\* payload(k-1) and expected_seq is k, k the length of the contiguous run of
\* admitted sequence numbers from 0.
C1_AnyOrder == Reordered

\* C1, amended: the same, for sequences of data frames in which no frame is
\* more than 50 ahead of expected_seq when it is handled.
C1_InWindow == window_ok => Reordered

\* C1 witness: a frame arrived before its predecessor, within the window, and
\* the run was flushed.
C1_Witness ==
    /\ window_ok
    /\ last.op = "in_order"
    /\ last.seq = 0
    /\ expected_seq = 2
    /\ Len(received_data) = 2

KeyCount == Cardinality(DOMAIN packet_buffer)

\* C2: the reorder buffer never holds more than max_buffer_size entries
\* between handler invocations.
C2_BufferBound == KeyCount <= max_buffer_size

\* C3: handling a data frame whose sequence number is below expected_seq
\* leaves packet_buffer, received_data and expected_seq as they were,
\* whatever its payload: a step that changes one of them is the handling of
\* no such frame.
C3_DuplicateSuppression ==
    [][\/ UNCHANGED reassembly
       \/ \A f \in ReorderData :
            f.seq < expected_seq => ~notification_handler(f)]_vars

\* C3 witness: a stale frame was handled after output had been produced.
C3_Witness ==
    /\ last.op = "stale"
    /\ total_packets >= 2
    /\ Len(received_data) > 0

\* C4: every forced assignment of expected_seq (large-gap skip, stall skip)
\* sets it to a key of packet_buffer above the previous expected_seq, and
\* expected_seq never decreases.
C4_SkipForward ==
    [][/\ last'.skip_to # -1 =>
            /\ last'.skip_to > expected_seq
            /\ last'.skip_to \in (DOMAIN packet_buffer) \cup {last'.seq}
            /\ expected_seq' > last'.skip_to
       /\ expected_seq' >= expected_seq]_vars

\* C4 witness: a stall skip moved expected_seq past a missing frame.
C4_Witness ==
    /\ last.op = "stall_skip"
    /\ last.skip_to > 0
    /\ expected_seq > last.skip_to

\* The step ends a download_file session that started (start_notify had
\* returned): download_file returns or raises.
SessionEnded ==
    /\ pc \in {"initial_credits", "sleep", "stall_credits", "stop_notify"}
    /\ pc' = "exited"

\* C5: on every path by which a started download_file session ends (complete,
\* accepted after a 99% stall, timed out, transport error, interrupt),
\* stop_notify has been called exactly once.
C5_ReleasedOnce == [][SessionEnded => stop_notify_calls' = 1]_vars

\* C6: the loop never reports the timeout after an EndMarker frame has been
\* handled, whatever the interleaving of the handler and the loop: no step
\* ends the session as timed out with the completion flag set.
C6_NoTimeoutAfterEof ==
    [][(SessionEnded /\ exit_reason' = "timeout") =>
          ~file_transfer_complete]_vars

\* C7: without a byte of output and without an EndMarker the session ends as
\* timed out, by the iteration of the first sample taken after the deadline
\* (the loop never sleeps again past the deadline with an empty output) and
\* whatever stall recovery did before; and the timeout is never reported with
\* bytes in the output.
C7_HardTimeout ==
    /\ [][(SessionEnded /\ exit_reason' = "timeout") =>
             /\ Len(received_data') = 0
             /\ returned' = "false"]_vars
    /\ [](pc = "sleep" /\ now > TimeoutTicks => Len(received_data) > 0)
    /\ (pc = "initial_credits") ~>
           \/ exit_reason = "timeout"
           \/ Len(received_data) > 0
           \/ file_transfer_complete

\* C7 witness: the session timed out after a stall recovery had granted its
\* credits, with a frame held in the reorder buffer and an empty output.
C7_Witness ==
    /\ exit_reason = "timeout"
    /\ returned = "false"
    /\ credits_sent >= InitialCredits + StallCredits
    /\ packet_buffer # EmptyBuffer
    /\ Len(received_data) = 0

\* C8: every key of packet_buffer is above expected_seq.
C8_KeysAhead == \A k \in DOMAIN packet_buffer : k > expected_seq

\* C8 witness: a stall skip flushed the lowest buffered frame and left a
\* higher one in the buffer.
C8_Witness ==
    /\ last.op = "stall_skip"
    /\ packet_buffer # EmptyBuffer
    /\ expected_seq > 1

\* Frames shorter than the header, or whose declared length is not the number
\* of bytes after the header.
ReorderMalformed ==
    {f \in ReorderFrames : f.raw_len < HeaderLen \/ f.length # Len(f.body)}

\* C9: the handling of a frame shorter than the 8-byte header, or whose
\* declared length differs from the number of bytes after the header (fewer
\* or more), changes none of the output, expected_seq, the buffer, the packet
\* count and the completion flag, and grants no credit.
C9_MalformedRejected ==
    [][\A f \in ReorderMalformed :
          notification_handler(f) =>
              UNCHANGED <<reassembly, total_packets, file_transfer_complete,
                          credits_sent>>]_vars

\* C10: when the overflow eviction runs, every removed key is below every
\* surviving key, every key that left the buffer without being flushed is
\* reported, and at most max_buffer_size \div 2 entries remain.
C10_EvictionPolicy ==
    [][last'.dropped # {} =>
          /\ last'.dropped \cap DOMAIN packet_buffer' = {}
          /\ \A d \in last'.dropped :
                /\ d \in (DOMAIN packet_buffer) \cup {last'.seq}
                /\ \A k \in DOMAIN packet_buffer' : d < k
          /\ \A k \in (DOMAIN packet_buffer) \ (DOMAIN packet_buffer') :
                k >= expected_seq' => k \in last'.dropped
          /\ KeyCount' <= max_buffer_size \div 2]_vars

\* C10 witness: the eviction ran on a buffer over its cap and left half the cap.
C10_Witness ==
    /\ last.dropped # {}
    /\ Cardinality(last.dropped) > max_buffer_size \div 2
    /\ KeyCount = max_buffer_size \div 2

IsPrefix(p, q) == Len(p) <= Len(q) /\ SubSeq(q, 1, Len(p)) = p

\* C11 as stated: after the handler admitted a frame with sequence number
\* s > expected_seq + 50, expected_seq is at least s and no key below s is
\* left in packet_buffer.
C11_SkipToFrame ==
    [][last'.op = "gap_skip" =>
          /\ expected_seq' >= last'.seq
          /\ \A k \in DOMAIN packet_buffer' : k >= last'.seq]_vars

\* C11, amended: the large-gap skip moves expected_seq to the lowest key m of
\* the buffer, the frame s included, so m <= s, and flushes: exactly the
\* contiguous run of keys from m leaves the buffer for the output, the entry
\* at m first, and expected_seq ends above m, at the first number that is no
\* key.  The skip deletes nothing itself, but the flush applies the overflow
\* eviction: if more than max_buffer_size entries are left after the run, the
\* lowest are deleted and reported, the frame s possibly among them, and
\* max_buffer_size \div 2 remain; otherwise nothing is deleted.  Every key
\* that remains is above expected_seq; expected_seq ends above s exactly when
\* s was flushed, in which case s is neither left nor deleted.
C11_SkipToLowest ==
    [][last'.op = "gap_skip" =>
          LET s == last'.seq
              m == last'.skip_to
              keys == (DOMAIN packet_buffer) \cup {s}
              left == {k \in keys : k >= expected_seq'}
          IN /\ m = SetMin(keys)
             /\ m <= s
             /\ expected_seq' > m
             /\ keys \ left = m..(expected_seq' - 1)
             /\ expected_seq' \notin keys
             /\ last'.dropped \subseteq left
             /\ DOMAIN packet_buffer' = left \ last'.dropped
             /\ (last'.dropped # {}) = (Cardinality(left) > max_buffer_size)
             /\ last'.dropped # {} =>
                   /\ KeyCount' = max_buffer_size \div 2
                   /\ \A d \in last'.dropped :
                         \A k \in DOMAIN packet_buffer' : d < k
             /\ \A k \in DOMAIN packet_buffer' :
                   /\ k > expected_seq'
                   /\ k # s => packet_buffer'[k] = packet_buffer[k]
             /\ (expected_seq' > s) =
                   (s \notin DOMAIN packet_buffer' /\ s \notin last'.dropped)
             /\ IsPrefix(received_data \o
                            (IF m = s THEN first_payload'[s]
                             ELSE packet_buffer[m]),
                         received_data')]_vars

\* C11 witness: with the buffer over its cap, a large-gap skip flushed a
\* buffered entry below the frame that arrived, and the eviction of the
\* flush deleted that frame with the lowest keys left.
C11_Witness ==
    /\ last.op = "gap_skip"
    /\ last.skip_to < last.seq
    /\ last.seq \in last.dropped
    /\ expected_seq < last.seq
    /\ Len(received_data) > 0
    /\ KeyCount = max_buffer_size \div 2

\* C12: the write of a credit grant (initial 64, cadence 2, stall 32) that
\* fails does not end the session with an error, leaves credits_sent as it
\* was and leaves the output, expected_seq and the buffer as the step without
\* the write leaves them; a write that succeeds adds the size of its grant;
\* credits_sent never decreases.
C12_BestEffort ==
    [][/\ credits_sent' >= credits_sent
       /\ credits_sent' - credits_sent \in {0, last'.grant}
       /\ initial_credits(TRUE) => credits_sent' = credits_sent + InitialCredits
       /\ initial_credits(FALSE) =>
             /\ UNCHANGED <<credits_sent, reassembly>>
             /\ pc' \in {"sleep", "stop_notify"}
             /\ returned' = "none"
       /\ \A d \in WriteTicks :
             /\ stall_credits(TRUE, d) =>
                   credits_sent' = credits_sent + StallCredits
             /\ stall_credits(FALSE, d) =>
                   /\ UNCHANGED credits_sent
                   /\ reassembly' = <<StallSkip.received_data,
                                      StallSkip.expected_seq,
                                      StallSkip.packet_buffer>>
                   /\ exit_reason' \in {"none", "complete", "timeout"}
                   /\ returned' # "raised"
       /\ cadence_credits(TRUE) =>
             credits_sent' = credits_sent + CadenceCredits
       /\ cadence_credits(FALSE) =>
             UNCHANGED <<credits_sent, reassembly, loop_vars>>
       /\ last'.op \in HandlerOps \ {"cadence_credits"} =>
             UNCHANGED <<credits_sent, loop_vars>>]_vars

\* C12 witness: the writes of the initial grant and of a stall grant failed
\* and the loop is back in its sleep.
C12_Witness ==
    /\ last.op = "stall_recover"
    /\ last.grant = StallCredits
    /\ credits_sent = 0
    /\ pc = "sleep"

\* C13: while every admitted frame is at most 50 above expected_seq when it
\* is handled and no stall skip occurs, the buffer holds exactly the admitted
\* frames above expected_seq with the payloads they arrived with first,
\* expected_seq is the first sequence number not admitted (the flush took the
\* whole contiguous run), and the output is payload(0) .. payload(n-1) for
\* n = expected_seq.
C13_InWindowReassembly ==
    window_ok =>
        /\ DOMAIN packet_buffer = {k \in Admitted : k > expected_seq}
        /\ \A k \in DOMAIN packet_buffer : packet_buffer[k] = first_payload[k]
        /\ expected_seq \notin Admitted
        /\ \A m \in 0..(expected_seq - 1) : m \in Admitted
        /\ received_data = PrefixOutput(expected_seq)

\* C13 witness: frames 1 and 2 were held in the buffer and frame 0 flushed
\* the run of three in one invocation.
C13_Witness ==
    /\ window_ok
    /\ last.op = "in_order"
    /\ last.seq = 0
    /\ expected_seq = 3
    /\ packet_buffer = EmptyBuffer
    /\ Len(received_data) = 3

\* C14: the handling of a data frame whose sequence number exceeds
\* expected_seq by more than 50, buffered already or not, moves expected_seq
\* to the lowest buffered sequence number at or above it and drains: that
\* number is flushed and expected_seq ends above it.
C14_LargeGapTrigger ==
    [][\A f \in ReorderData :
          (/\ f.seq > expected_seq + GapThreshold
           /\ notification_handler(f)) =>
              LET m == SetMin({k \in (DOMAIN packet_buffer) \cup {f.seq} :
                                  k >= expected_seq})
              IN /\ expected_seq' > m
                 /\ m \notin DOMAIN packet_buffer']_vars

\* The step is a sample of the driving loop that compares the byte count.
CountingSample ==
    /\ pc = "sleep"
    /\ last'.op \in {"unchanged", "progress", "stalled", "accepted"}

EntersStalled == last'.op \in {"stalled", "accepted"}

\* C15: the loop enters Stalled exactly at the sample that finds the byte
\* count unchanged for the 20th consecutive time, and a sample that finds it
\* changed resets the count to zero.
C15_StallAtTwenty ==
    [][CountingSample =>
          /\ EntersStalled <=>
                (/\ Len(received_data) = last_received
                 /\ stall_count + 1 = StallLimit)
          /\ Len(received_data) # last_received => stall_count' = 0]_vars

NearComplete ==
    Len(received_data) * 100 >= NearCompletePercent * file_size

\* The sample that enters Stalled at 99% or more ends the loop as accepted,
\* with no grant and no skip.
StallAccepts ==
    (CountingSample /\ EntersStalled /\ NearComplete) =>
        /\ exit_reason' = "accepted"
        /\ pc' = "stop_notify"
        /\ last'.grant = 0
        /\ UNCHANGED <<credits_sent, reassembly>>

\* The sample that enters Stalled below 99% goes to the write of 32 credits;
\* when the write is over the loop skips to the minimum buffered number only
\* if it is within 10 of expected_seq, and the iteration ends in one of the
\* ways that ending holds.
StallRecovers(ending) ==
    /\ (CountingSample /\ EntersStalled /\ ~NearComplete) =>
          /\ pc' = "stall_credits"
          /\ UNCHANGED <<exit_reason, returned, credits_sent, reassembly>>
    /\ (pc = "stall_credits" /\ last'.op \in {"stall_skip", "stall_recover"}) =>
          /\ last'.grant = StallCredits
          /\ credits_sent' \in {credits_sent, credits_sent + StallCredits}
          /\ IF /\ packet_buffer # EmptyBuffer
                /\ SetMin(DOMAIN packet_buffer) - expected_seq <= SkipThreshold
             THEN /\ last'.op = "stall_skip"
                  /\ last'.skip_to = SetMin(DOMAIN packet_buffer)
                  /\ expected_seq' > SetMin(DOMAIN packet_buffer)
             ELSE /\ last'.op = "stall_recover"
                  /\ UNCHANGED reassembly
          /\ exit_reason' # "accepted"
          /\ ending

BackToDownloading == pc' = "sleep" /\ exit_reason' = "none" /\ stall_count' = 0

LoopTestEnds ==
    /\ pc' = "stop_notify"
    /\ exit_reason' = "complete"
    /\ Len(received_data') >= file_size \/ file_transfer_complete

TimeoutEnds ==
    /\ exit_reason' = "timeout"
    /\ returned' = "false"
    /\ Len(received_data') = 0
    /\ now' > TimeoutTicks

\* C16 as stated: at 99% or more the stall ends the session as accepted
\* without grant and skip, and download_file returns success; below 99% the
\* stall never ends the session: 32 credits, the skip within 10, back to
\* Downloading.
C16_StallNeverEnds ==
    [][/\ StallAccepts
       /\ StallRecovers(BackToDownloading)]_vars

\* C16, amended: the same, but the iteration of a stall below 99% ends like
\* every iteration: with the timeout when the output is empty past the
\* deadline, with the end of the loop when its test fails (the skip flushed
\* the last bytes, or an EndMarker was handled during the write), and back
\* to Downloading otherwise.  An accepted session that download_file
\* returned from returned success.
C16_NearCompleteAcceptance ==
    /\ [][/\ StallAccepts
          /\ StallRecovers(BackToDownloading \/ LoopTestEnds \/ TimeoutEnds)]_vars
    /\ []((pc = "exited" /\ exit_reason = "accepted") => returned = "true")

\* C16 witness: the session was accepted at 99 of 100 bytes, with no other
\* grant than the initial one.
C16_Witness ==
    /\ pc = "exited"
    /\ exit_reason = "accepted"
    /\ returned = "true"
    /\ Len(received_data) * 100 = NearCompletePercent * file_size
    /\ credits_sent <= InitialCredits

\* C17: without write failures, after any sequence of handled frames (in
\* order, out of order, duplicate or stale) the cadence credits issued, those
\* whose write has returned and those whose write is under way, are
\* 2 * floor(total_packets / 2).  No other grant is written while
\* download_file waits for the write of the initial credits.
C17_Cadence ==
    subscribed =>
        credits_sent + CadenceCredits * pending_grants =
            CadenceCredits * (total_packets \div CadencePackets)

\* C18: only steps of the notification handler change the output, expected_seq
\* or the reorder buffer, and only steps of download_file and main change the
\* position and the outcome of the session.
C18_SingleWriter ==
    [][/\ reassembly' # reassembly => last'.op \in HandlerOps
       /\ <<pc, exit_reason, returned>>' # <<pc, exit_reason, returned>> =>
             last'.op \notin HandlerOps]_vars

\* The payloads fp[k] of the numbers k of S from a to b, in increasing order.
RECURSIVE FlushedRange(_, _, _, _)
FlushedRange(fp, S, a, b) ==
    IF a > b THEN <<>>
    ELSE (IF a \in S THEN fp[a] ELSE <<>>) \o FlushedRange(fp, S, a + 1, b)

\* The frames that reached the output: those admitted and not evicted, below
\* expected_seq.
FlushedOutput == FlushedRange(first_payload, Admitted, 0, expected_seq - 1)

\* A step appends to the output the payloads of the numbers from its starting
\* point (expected_seq, or the target of its skip) up to the new expected_seq,
\* the buffered ones and the frame it handles, in increasing order.
AppendsRun ==
    LET start == IF last'.skip_to # -1 THEN last'.skip_to ELSE expected_seq
        payloads == [k \in start..(expected_seq' - 1) |->
                        IF k \in DOMAIN packet_buffer THEN packet_buffer[k]
                        ELSE first_payload'[k]]
    IN /\ start >= expected_seq
       /\ expected_seq' >= start
       /\ received_data' =
             received_data \o
                FlushedRange(payloads, DOMAIN payloads, start, expected_seq' - 1)

\* C19: the output is the concatenation, in increasing order of sequence
\* number, of the payloads of frames with numbers below expected_seq, each
\* number once, so its length is the sum of their lengths; and every step
\* extends it by the payloads of numbers at or above the old expected_seq and
\* below the new one.
C19_OutputOrder ==
    /\ [](received_data = FlushedOutput)
    /\ [][AppendsRun]_vars

\* C19 witness: frame 0 never arrived, a skip moved expected_seq forward and
\* the output holds the payload of a later frame.
C19_Witness ==
    /\ 0 \notin Admitted
    /\ last.op \in {"stall_skip", "gap_skip"}
    /\ expected_seq > 1
    /\ Len(received_data) > 0
    /\ packet_buffer # EmptyBuffer

\* The loop is running, no EndMarker was handled, the output is neither empty
\* nor at 99%, and the buffer is empty or its minimum is more than 10 above
\* expected_seq.
StuckCase ==
    /\ pc \in {"sleep", "stall_credits"}
    /\ ~file_transfer_complete
    /\ Len(received_data) > 0
    /\ Len(received_data) * 100 < NearCompletePercent * file_size
    /\ \/ packet_buffer = EmptyBuffer
       \/ SetMin(DOMAIN packet_buffer) - expected_seq > SkipThreshold

\* C20: in the stuck case every step of the driving loop leaves the session
\* in the stuck case: no terminal state, no stop_notify, output, expected_seq
\* and buffer as they were; the loop enters its stall recovery at the 21st
\* unchanged sample and the recovery is a grant of 32 credits without a skip;
\* and as long as no frame changes the case, the loop comes to the stall
\* recovery again and again.
C20_NeverTerminates ==
    /\ [][(StuckCase /\ last'.op \notin HandlerOps) =>
             /\ StuckCase'
             /\ exit_reason' = "none"
             /\ returned' = "none"
             /\ subscribed'
             /\ UNCHANGED <<stop_notify_calls, reassembly>>
             /\ CountingSample =>
                   (last'.op = "stalled" <=>
                       (/\ Len(received_data) = last_received
                        /\ stall_count = StallLimit))
             /\ pc = "stall_credits" =>
                   /\ last'.op = "stall_recover"
                   /\ last'.grant = StallCredits]_vars
    /\ (StuckCase /\ pc = "sleep") ~> (pc = "stall_credits" \/ ~StuckCase)

\* C20 witness: the loop is back in its sleep after a stall recovery, with one
\* byte of 100 in the output and a frame 50 ahead in the buffer.
C20_Witness ==
    /\ StuckCase
    /\ pc = "sleep"
    /\ last.op = "stall_recover"
    /\ packet_buffer # EmptyBuffer
    /\ now > TimeoutTicks

====
